---------------------------- MODULE Spec2Model ----------------------------
(* A model of ractor's wasm/browser timer facade                            *)
(*   src/ractor/src/concurrency/wasm_browser_primitives/web_global_scope.rs *)
(* The host (browser window, browser worker, Node.js) is modelled by what   *)
(* its global object answers to the probes of get_web_global_scope and by   *)
(* its timer table; the program by the OnceLock singleton, the detection    *)
(* procedure, the three scope methods and the three facade functions.       *)
EXTENDS Integers, Sequences, FiniteSets, TLC

\* ------------------------------------------------------------------ bounds
NumCallers == 2
MaxTimers == 2
MaxFires == 2
MaxDetect == 3

\* --------------------------------------------------------- program constants
I32Max == 2147483647
I32Min == (-I32Max) - 1

Callers == 1..NumCallers

\* ------------------------------------------------------------- JS numbers
\* An f64 as the code meets it: a finite value whole + (half ? 0.5 : 0) that
\* lies in the i32 range, a value beyond i32::MAX (I32Max + whole), a value
\* below i32::MIN (I32Min - whole), or NaN.
Fin(w, h) == [cls |-> "fin", whole |-> w, half |-> h]
Above(k) == [cls |-> "above", whole |-> k, half |-> FALSE]
Below(k) == [cls |-> "below", whole |-> k, half |-> FALSE]
NaN == [cls |-> "nan", whole |-> 0, half |-> FALSE]
\* A host object that is not a number (the key of a timer the host never
\* files under a number).
Opaque(k) == [cls |-> "object", whole |-> k, half |-> FALSE]

\* `interval_id as f64`: every i32 is exactly representable.
I32AsF64(i) == Fin(i, FALSE)

\* A faulty variant of F64AsI32: floors instead of truncating toward zero.
F64AsI32Floor(v) ==
  CASE v.cls = "nan" -> 0
    [] v.cls = "above" -> I32Max
    [] v.cls = "below" -> I32Min
    [] OTHER -> v.whole

\* `primitive_f64 as i32`: Rust's saturating float-to-int cast: truncation
\* toward zero, NaN to 0, out-of-range values to the nearest bound.
F64AsI32(v) ==
  CASE v.cls = "nan" -> 0
    [] v.cls = "above" -> I32Max
    [] v.cls = "below" -> I32Min
    [] OTHER -> IF v.half /\ v.whole < 0 THEN v.whole + 1 ELSE v.whole

\* ------------------------------------------------------------ environment
FnNames == <<"clearInterval", "setInterval", "setTimeout">>
FnNameSet == {"clearInterval", "setInterval", "setTimeout"}
EvalOutcomes == {"true", "false", "throw"}
GetOutcomes == {"throw", "nonobject", "object"}
HasOutcomes == {"throw", "true", "false"}
LookupOutcomes == {"throw", "nonfunction", "function"}
\* How the object returned by Node's setTimeout/setInterval coerces to a
\* number. "counter" and "beyond" are what Node's Timeout does (its async id,
\* a counter that is not bounded by i32::MAX); the others are Timeout-like
\* objects of other shapes.
NumericShapes == {"counter", "beyond", "half", "negative", "neghalf", "below", "nan"}
BrokenShapes == {"missing", "notfn", "throws", "nonnum"}
TimeoutShapes == NumericShapes \cup BrokenShapes

Env(we, wc, ne, nc, p, v, n, fns, ps, sh) ==
  [workerEval |-> we, workerCast |-> wc, windowEval |-> ne, windowCast |-> nc,
   process |-> p, versions |-> v, node |-> n, fns |-> fns,
   panic |-> ps, shape |-> sh]

AllFns == [f \in FnNameSet |-> "function"]
NoFns == [f \in FnNameSet |-> "nonfunction"]

\* Every answer the global object can give to the probes.
AllEnvs ==
  { Env(we, wc, ne, nc, p, v, n, fns, "unwind", "counter") :
      we \in EvalOutcomes, wc \in BOOLEAN, ne \in EvalOutcomes, nc \in BOOLEAN,
      p \in GetOutcomes, v \in GetOutcomes, n \in HasOutcomes,
      fns \in [FnNameSet -> LookupOutcomes] }

EnvWorker(ps) == Env("true", TRUE, "false", FALSE, "nonobject", "nonobject", "false", NoFns, ps, "counter")
EnvWindow(ps) == Env("false", FALSE, "true", TRUE, "nonobject", "nonobject", "false", NoFns, ps, "counter")
EnvNode(ps, sh) == Env("false", FALSE, "false", FALSE, "object", "object", "true", AllFns, ps, sh)
EnvNoHost(ps) == Env("false", FALSE, "false", FALSE, "nonobject", "nonobject", "false", NoFns, ps, "counter")
EnvNodeNoSetTimeout(ps) ==
  Env("false", FALSE, "false", FALSE, "object", "object", "true",
      [AllFns EXCEPT !["setTimeout"] = "nonfunction"], ps, "counter")

\* The hosts of the full-system specification: the three recognised hosts
\* (Node before and after its async-id counter has passed i32::MAX) and two
\* hosts on which detection fails, in builds whose panics unwind and in
\* builds whose panics abort.
SystemEnvs ==
  { EnvWorker("abort"), EnvWindow("unwind"), EnvNode("unwind", "counter"),
    EnvNode("unwind", "beyond"), EnvNoHost("unwind"), EnvNodeNoSetTimeout("unwind"),
    EnvNoHost("abort") }

\* Node hosts whose scheduling calls return a Timeout-like object of any shape.
TimeoutLikeEnvs == { EnvNode("unwind", sh) : sh \in TimeoutShapes }

\* -------------------------------------------------------------- detection
NoFn == "none"
NodeJs(ci, si, st) ==
  [variant |-> "NodeJs", clear_interval |-> ci, set_interval |-> si, set_timeout |-> st]
Window == [variant |-> "Window", clear_interval |-> NoFn, set_interval |-> NoFn, set_timeout |-> NoFn]
WorkerGlobalScope ==
  [variant |-> "WorkerGlobalScope", clear_interval |-> NoFn, set_interval |-> NoFn, set_timeout |-> NoFn]
NoScope == [variant |-> "none", clear_interval |-> NoFn, set_interval |-> NoFn, set_timeout |-> NoFn]

\* Result<WebGlobalScope, JsValue> and Result<Function, JsValue>.
Ok(x) == [ok |-> TRUE, val |-> x, err |-> "none"]
Err(e) == [ok |-> FALSE, val |-> NoScope, err |-> e]
FnOk(name) == [ok |-> TRUE, val |-> name, err |-> "none"]
FnErr(e) == [ok |-> FALSE, val |-> NoFn, err |-> e]

ErrJsException == "js exception"
ErrNotInstance == "global object (failed cast)"
ErrNoKnownHost == "failed to get global scope in web environment"
ErrFn(name) == "failed to get js function " \o name

\* A faulty variant of get_js_function_from_object: one message for every name.
get_js_function_from_object_generic(e, name) ==
  CASE e.fns[name] = "throw" -> FnErr(ErrJsException)
    [] e.fns[name] = "nonfunction" -> FnErr("failed to get js function")
    [] OTHER -> FnOk(name)

\* Reflect::get(object, name), then dyn_into::<Function>. A function value is
\* identified by the global name it was read from.
get_js_function_from_object(e, name) ==
  CASE e.fns[name] = "throw" -> FnErr(ErrJsException)
    [] e.fns[name] = "nonfunction" -> FnErr(ErrFn(name))
    [] OTHER -> FnOk(name)

\* A faulty variant of is_node_js_env: a lookup that fails reads as "yes".
is_node_js_env_lenient(e) ==
  IF e.process = "nonobject" THEN FALSE
  ELSE IF e.process = "object" /\ e.versions = "nonobject" THEN FALSE
  ELSE ~(e.process = "object" /\ e.versions = "object" /\ e.node = "false")

\* is_node_js_env: process and process.versions are objects, and `node` is a
\* property of process.versions; any lookup error reads as "no".
is_node_js_env(e) ==
  IF e.process # "object" THEN FALSE
  ELSE IF e.versions # "object" THEN FALSE
  ELSE e.node = "true"

\* A faulty variant of NodeJsScope: set_interval and set_timeout are read from
\* each other's name.
NodeJsScopeSwapped(e) ==
  LET ci == get_js_function_from_object(e, "clearInterval")
      si == get_js_function_from_object(e, "setTimeout")
      st == get_js_function_from_object(e, "setInterval")
  IN  IF ~ci.ok THEN Err(ci.err)
      ELSE IF ~si.ok THEN Err(si.err)
      ELSE IF ~st.ok THEN Err(st.err)
      ELSE Ok(NodeJs(ci.val, si.val, st.val))

\* The NodeJs arm: the three lookups in field order, the first failure
\* returned by `?`.
NodeJsScope(e) ==
  LET ci == get_js_function_from_object(e, "clearInterval")
      si == get_js_function_from_object(e, "setInterval")
      st == get_js_function_from_object(e, "setTimeout")
  IN  IF ~ci.ok THEN Err(ci.err)
      ELSE IF ~si.ok THEN Err(si.err)
      ELSE IF ~st.ok THEN Err(st.err)
      ELSE Ok(NodeJs(ci.val, si.val, st.val))

\* A result of get_web_global_scope with the probes evaluated to reach it, in
\* their order.
Probed(r, ps) == [ok |-> r.ok, val |-> r.val, err |-> r.err, probes |-> ps]

\* A faulty variant of get_web_global_scope: the window probe before the worker probe
\* and the marker probe first of all.
get_web_global_scope_reordered(e) ==
  IF is_node_js_env(e) THEN Probed(NodeJsScope(e), <<"node">>)
  ELSE IF e.windowEval = "throw" THEN Probed(Err(ErrJsException), <<"node", "window">>)
  ELSE IF e.windowEval = "true"
    THEN Probed(IF e.windowCast THEN Ok(Window) ELSE Err(ErrNotInstance),
                <<"node", "window">>)
  ELSE IF e.workerEval = "throw"
    THEN Probed(Err(ErrJsException), <<"node", "window", "worker">>)
  ELSE IF e.workerEval = "true"
    THEN Probed(IF e.workerCast THEN Ok(WorkerGlobalScope) ELSE Err(ErrNotInstance),
                <<"node", "window", "worker">>)
  ELSE Probed(Err(ErrNoKnownHost), <<"node", "window", "worker">>)

\* A faulty variant of get_web_global_scope: a probe that throws, or that matches
\* a global object the binding rejects, counts as no match.
get_web_global_scope_fallthrough(e) ==
  IF e.workerEval = "true" /\ e.workerCast
    THEN Probed(Ok(WorkerGlobalScope), <<"worker">>)
  ELSE IF e.windowEval = "true" /\ e.windowCast
    THEN Probed(Ok(Window), <<"worker", "window">>)
  ELSE IF is_node_js_env(e)
    THEN Probed(NodeJsScope(e), <<"worker", "window", "node">>)
  ELSE Probed(Err(ErrNoKnownHost), <<"worker", "window", "node">>)

\* get_web_global_scope: worker probe, window probe, script-host marker; the
\* `?` on an eval or on a dyn_into returns its error at once.
get_web_global_scope(e) ==
  IF e.workerEval = "throw" THEN Probed(Err(ErrJsException), <<"worker">>)
  ELSE IF e.workerEval = "true"
    THEN Probed(IF e.workerCast THEN Ok(WorkerGlobalScope) ELSE Err(ErrNotInstance),
                <<"worker">>)
  ELSE IF e.windowEval = "throw"
    THEN Probed(Err(ErrJsException), <<"worker", "window">>)
  ELSE IF e.windowEval = "true"
    THEN Probed(IF e.windowCast THEN Ok(Window) ELSE Err(ErrNotInstance),
                <<"worker", "window">>)
  ELSE IF is_node_js_env(e)
    THEN Probed(NodeJsScope(e), <<"worker", "window", "node">>)
  ELSE Probed(Err(ErrNoKnownHost), <<"worker", "window", "node">>)

\* ------------------------------------------------------------------- host
JsCb(cb) == [t |-> "function", cb |-> cb, num |-> NaN]
JsNum(v) == [t |-> "number", cb |-> "none", num |-> v]

\* The number under which the host files its n-th timer: what the Timeout's
\* Symbol.toPrimitive yields, or the handle a browser returns.
HostKey(shape, n) ==
  CASE shape = "counter" -> Fin(n, FALSE)
    [] shape = "beyond" -> Above(n)
    [] shape = "half" -> Fin(n, TRUE)
    [] shape = "negative" -> Fin(-n, FALSE)
    [] shape = "neghalf" -> Fin((-n) - 1, TRUE)
    [] shape = "below" -> Below(n)
    [] shape = "nan" -> NaN
    [] OTHER -> Opaque(n)

\* A call of one of the host's three timer functions: op = [fn, a1, a2].
\* setTimeout/setInterval throw when the first argument is no function or
\* when the host refuses (accept = FALSE); otherwise they file a new timer.
\* clearInterval removes the timer filed under the number given, if there is
\* one the host can find by number, and never throws.
HostApply(op, shape, byNumber, tm, alloc, accept) ==
  IF op.fn = "clearInterval"
  THEN [threw |-> FALSE, n |-> 0, alloc |-> alloc,
        timers |-> { x \in tm : ~(x.known /\ op.a1.t = "number" /\ x.key = op.a1.num) }]
  ELSE IF op.a1.t # "function" \/ ~accept
  THEN [threw |-> TRUE, n |-> 0, alloc |-> alloc, timers |-> tm]
  ELSE [threw |-> FALSE, n |-> alloc + 1, alloc |-> alloc + 1,
        timers |-> tm \cup { [n |-> alloc + 1, key |-> HostKey(shape, alloc + 1),
                              kind |-> IF op.fn = "setTimeout" THEN "timeout" ELSE "interval",
                              cb |-> op.a1.cb, delay |-> op.a2, known |-> byNumber] }]

\* Node files a Timeout under its number when its primitive is first taken.
Register(tm, n) == { IF x.n = n THEN [x EXCEPT !.known = TRUE] ELSE x : x \in tm }

\* --------------------------------------------------------- scope methods
\* A faulty variant of get_node_js_timeout_id: a default id instead of the panic.
get_node_js_timeout_id_default(shape, n) ==
  IF shape \in BrokenShapes
  THEN [panic |-> FALSE, id |-> 0, invoked |-> shape \in {"throws", "nonnum"}]
  ELSE [panic |-> FALSE, id |-> F64AsI32(HostKey(shape, n)), invoked |-> TRUE]

\* get_node_js_timeout_id on the host's n-th Timeout: Reflect::get of
\* Symbol.toPrimitive, dyn_into::<Function>, call0 with the Timeout as this,
\* as_f64, `as i32`, expect.
get_node_js_timeout_id(shape, n) ==
  CASE shape \in {"missing", "notfn"} -> [panic |-> TRUE, id |-> 0, invoked |-> FALSE]
    [] shape \in {"throws", "nonnum"} -> [panic |-> TRUE, id |-> 0, invoked |-> TRUE]
    [] OTHER -> [panic |-> FALSE, id |-> F64AsI32(HostKey(shape, n)), invoked |-> TRUE]

\* The host operation a scheduling method issues: the stored function on
\* NodeJs, the method of the bound object on Window and WorkerGlobalScope.
ScheduleOp(scope, stored, method, cb, delay) ==
  [fn |-> IF scope.variant = "NodeJs" THEN stored ELSE method,
   on |-> scope.variant, a1 |-> JsCb(cb), a2 |-> JsNum(I32AsF64(delay)), extra |-> 0]

\* A faulty variant of Schedule: the id is taken from the host call's result
\* before the result is examined.
ScheduleUnwrapped(scope, op, shape, tm, alloc, accept) ==
  LET h == HostApply(op, shape, scope.variant # "NodeJs", tm, alloc, accept)
      nid == get_node_js_timeout_id(shape, h.n)
  IN  IF scope.variant = "NodeJs"
      THEN [outcome |-> IF h.threw \/ nid.panic THEN "panic" ELSE "ok",
            id |-> IF h.threw THEN 0 ELSE nid.id,
            timers |-> IF ~h.threw /\ nid.invoked /\ shape \in NumericShapes
                       THEN Register(h.timers, h.n) ELSE h.timers,
            alloc |-> h.alloc, ops |-> <<op>>, threw |-> h.threw,
            ret |-> IF h.threw \/ nid.panic THEN "panic" ELSE "ok",
            err |-> "none", normalized |-> TRUE]
      ELSE [outcome |-> IF h.threw THEN "err" ELSE "ok",
            id |-> IF h.threw THEN 0 ELSE HostKey(shape, h.n).whole,
            timers |-> h.timers, alloc |-> h.alloc, ops |-> <<op>>, threw |-> h.threw,
            ret |-> IF h.threw THEN "err" ELSE "ok",
            err |-> IF h.threw THEN ErrJsException ELSE "none", normalized |-> FALSE]

\* The body shared by WebGlobalScope::set_interval and ::set_timeout. ret is
\* what the method returns (an Err carries the host's exception, err),
\* normalized whether get_node_js_timeout_id was called.
Schedule(scope, op, shape, tm, alloc, accept) ==
  LET h == HostApply(op, shape, scope.variant # "NodeJs", tm, alloc, accept)
      nid == get_node_js_timeout_id(shape, h.n)
  IN  IF h.threw
      THEN [outcome |-> "err", id |-> 0, timers |-> h.timers, alloc |-> h.alloc,
            ops |-> <<op>>, threw |-> TRUE,
            ret |-> "err", err |-> ErrJsException, normalized |-> FALSE]
      ELSE IF scope.variant = "NodeJs"
      THEN [outcome |-> IF nid.panic THEN "panic" ELSE "ok", id |-> nid.id,
            timers |-> IF nid.invoked /\ shape \in NumericShapes
                       THEN Register(h.timers, h.n) ELSE h.timers,
            alloc |-> h.alloc, ops |-> <<op>>, threw |-> FALSE,
            ret |-> IF nid.panic THEN "panic" ELSE "ok", err |-> "none",
            normalized |-> TRUE]
      ELSE [outcome |-> "ok", id |-> HostKey(shape, h.n).whole,
            timers |-> h.timers, alloc |-> h.alloc, ops |-> <<op>>, threw |-> FALSE,
            ret |-> "ok", err |-> "none", normalized |-> FALSE]

WebGlobalScope_set_interval(scope, cb, delay, shape, tm, alloc, accept) ==
  Schedule(scope, ScheduleOp(scope, scope.set_interval, "setInterval", cb, delay),
           shape, tm, alloc, accept)

\* A faulty variant of WebGlobalScope::set_timeout: the interval function is called.
WebGlobalScope_set_timeout_as_interval(scope, cb, delay, shape, tm, alloc, accept) ==
  Schedule(scope, ScheduleOp(scope, scope.set_interval, "setInterval", cb, delay),
           shape, tm, alloc, accept)

WebGlobalScope_set_timeout(scope, cb, delay, shape, tm, alloc, accept) ==
  Schedule(scope, ScheduleOp(scope, scope.set_timeout, "setTimeout", cb, delay),
           shape, tm, alloc, accept)

\* A faulty variant of WebGlobalScope::clear_interval: an id under which no timer is
\* scheduled is an error.
WebGlobalScope_clear_interval_strict(scope, id, shape, tm, alloc) ==
  LET op == [fn |-> IF scope.variant = "NodeJs" THEN scope.clear_interval ELSE "clearInterval",
             on |-> scope.variant, a1 |-> JsNum(I32AsF64(id)), a2 |-> JsNum(NaN), extra |-> 0]
      h == HostApply(op, shape, scope.variant # "NodeJs", tm, alloc, TRUE)
  IN  [outcome |-> IF h.threw \/ h.timers = tm THEN "panic" ELSE "ok", id |-> 0,
       timers |-> h.timers, alloc |-> h.alloc, ops |-> <<op>>, threw |-> h.threw,
       ret |-> IF h.threw \/ h.timers = tm THEN "panic" ELSE "ok", err |-> "none",
       normalized |-> FALSE]

WebGlobalScope_clear_interval(scope, id, shape, tm, alloc) ==
  LET op == [fn |-> IF scope.variant = "NodeJs" THEN scope.clear_interval ELSE "clearInterval",
             on |-> scope.variant, a1 |-> JsNum(I32AsF64(id)), a2 |-> JsNum(NaN), extra |-> 0]
      h == HostApply(op, shape, scope.variant # "NodeJs", tm, alloc, TRUE)
  IN  [outcome |-> IF h.threw THEN "panic" ELSE "ok", id |-> 0,
       timers |-> h.timers, alloc |-> h.alloc, ops |-> <<op>>, threw |-> h.threw,
       ret |-> IF h.threw THEN "panic" ELSE "ok", err |-> "none",
       normalized |-> FALSE]

\* ----------------------------------------------------------------- facade
\* A faulty variant of Expect: a default identifier instead of the panic.
ExpectOrDefault(r) == IF r.outcome = "err" THEN [r EXCEPT !.outcome = "ok"] ELSE r

\* Result::expect: an Err becomes a panic.
Expect(r) == IF r.outcome = "err" THEN [r EXCEPT !.outcome = "panic"] ELSE r

set_interval(scope, cb, delay, shape, tm, alloc, accept) ==
  Expect(WebGlobalScope_set_interval(scope, cb, delay, shape, tm, alloc, accept))

set_timeout(scope, cb, delay, shape, tm, alloc, accept) ==
  Expect(WebGlobalScope_set_timeout(scope, cb, delay, shape, tm, alloc, accept))

clear_interval(scope, id, shape, tm, alloc) ==
  WebGlobalScope_clear_interval(scope, id, shape, tm, alloc)

\* A faulty variant of Unwrap: a fallback scope instead of the panic.
UnwrapOrWindow(r) == IF r.ok THEN r ELSE Probed(Ok(Window), r.probes)

\* Result::unwrap in web_global_scope: the Ok value, or a panic (the caller
\* of Unwrap panics on a result that is not ok).
Unwrap(r) == r

\* SendWrapper::new and its Deref: the wrapper hands out the scope it holds.
SendWrapperNew(scope) == scope

\* A faulty variant of get_or_init: no exclusion of a second initializer.
get_or_init_racy(state) ==
  CASE state = "complete" -> "get"
    [] OTHER -> "init"

\* A faulty variant of get_or_init: the value is derived again on every call.
get_or_init_rederive(state) ==
  CASE state = "running" -> "wait"
    [] OTHER -> "init"

\* OnceLock::get_or_init as a caller meets it: the value is there, the caller
\* becomes the initializer, or another caller is initializing and it blocks.
get_or_init(state) ==
  CASE state = "complete" -> "get"
    [] state = "incomplete" -> "init"
    [] OTHER -> "wait"

\* ------------------------------------------------------------------ state
VARIABLES
  env,         \* the host: its answers to the probes, panic strategy, Timeout shape
  once,        \* the OnceLock's state
  instance,    \* the value stored in INSTANCE: [id, scope]
  pc,          \* where each caller is in its facade call
  call,        \* each caller's facade call in progress
  timers,      \* the host's scheduled timers
  allocated,   \* how many timers the host has filed so far
  fires,       \* how often the host has invoked the callback of its n-th timer
  issued,      \* per filed timer: its kind and the id the facade returned
  cancelled,   \* timers whose returned id was passed to clear_interval since
  used,        \* the instances any call was dispatched through
  last,        \* the last facade call that ended
  detectRuns,  \* how often get_web_global_scope has run
  lastDetect,  \* the result of its last run
  alive        \* the process has not aborted

vars == <<env, once, instance, pc, call, timers, allocated, fires, issued,
          cancelled, used, last, detectRuns, lastDetect, alive>>

\* The scheduling calls callers make: a timeout of delay 0 and an interval.
SetCalls ==
  { [op |-> "set_timeout", cb |-> "cbA", delay |-> 0, id |-> 0],
    [op |-> "set_interval", cb |-> "cbB", delay |-> 10, id |-> 0] }
ClearCall(id) == [op |-> "clear_interval", cb |-> "none", delay |-> 0, id |-> id]
NoCall == [op |-> "none", cb |-> "none", delay |-> 0, id |-> 0]
NoInstance == [id |-> 0, scope |-> NoScope]
\* No scope method has returned.
NoMethod == [ret |-> "none", err |-> "none", normalized |-> FALSE]
NoLast == [call |-> NoCall, phase |-> "none", outcome |-> "none",
           hasId |-> FALSE, id |-> 0, ops |-> <<>>, via |-> 0,
           rejected |-> FALSE, method |-> NoMethod, again |-> FALSE]
NoDetect == [ok |-> FALSE, val |-> NoScope, err |-> "not run", probes |-> <<>>]

IssuedIds == { issued[n].id : n \in { m \in 1..Len(issued) : issued[m].some } }
\* The ids a caller may pass to clear_interval: those the facade has
\* returned, and 0, under which no host files a timer.
ClearCalls == { ClearCall(id) : id \in IssuedIds \cup {0} }
PendingSets == Cardinality({ t \in Callers : pc[t] # "idle" /\ call[t].op # "clear_interval" })

InitRest ==
  /\ once = "incomplete"
  /\ instance = NoInstance
  /\ pc = [t \in Callers |-> "idle"]
  /\ call = [t \in Callers |-> NoCall]
  /\ timers = {}
  /\ allocated = 0
  /\ fires = [n \in 1..MaxTimers |-> 0]
  /\ issued = <<>>
  /\ cancelled = {}
  /\ used = {}
  /\ last = NoLast
  /\ detectRuns = 0
  /\ lastDetect = NoDetect
  /\ alive = TRUE

Init == env \in SystemEnvs /\ InitRest
InitDetect == env \in AllEnvs /\ InitRest
InitTimeoutLike == env \in TimeoutLikeEnvs /\ InitRest

\* ---------------------------------------------------------------- actions
\* The facade function named by the call, on the scope given.
Facade(c, scope, accept) ==
  CASE c.op = "set_timeout" ->
         set_timeout(scope, c.cb, c.delay, env.shape, timers, allocated, accept)
    [] c.op = "set_interval" ->
         set_interval(scope, c.cb, c.delay, env.shape, timers, allocated, accept)
    [] OTHER -> clear_interval(scope, c.id, env.shape, timers, allocated)

\* id was returned by set_interval and has been passed to clear_interval since.
ClearedBefore(id) ==
  \E n \in cancelled : issued[n].kind = "interval" /\ issued[n].id = id

\* A panic ends the caller's call; under panic=abort it ends the process.
AfterPanic == IF env.panic = "abort" THEN FALSE ELSE alive

\* The part of a facade call after web_global_scope() has returned inst: the
\* scope method, the host call it makes, and the facade's expect.
Complete(t, c, inst) ==
  \E accept \in (IF c.op = "clear_interval" THEN {TRUE} ELSE BOOLEAN) :
  \E r \in {Facade(c, inst.scope, accept)} :
    /\ timers' = r.timers
    /\ allocated' = r.alloc
    /\ issued' = IF r.alloc > allocated
                 THEN Append(issued, [kind |-> IF c.op = "set_timeout" THEN "timeout" ELSE "interval",
                                      some |-> r.outcome = "ok", id |-> r.id])
                 ELSE issued
    /\ cancelled' = IF c.op = "clear_interval" /\ r.outcome = "ok"
                    THEN cancelled \cup { n \in 1..Len(issued) : issued[n].some /\ issued[n].id = c.id }
                    ELSE cancelled
    /\ used' = used \cup {inst.id}
    /\ last' = [call |-> c, phase |-> "dispatch",
                outcome |-> IF r.outcome = "ok" THEN "returned" ELSE "panicked",
                hasId |-> r.outcome = "ok" /\ c.op # "clear_interval",
                id |-> IF r.outcome = "ok" THEN r.id ELSE 0,
                ops |-> r.ops, via |-> inst.id, rejected |-> r.threw,
                method |-> [ret |-> r.ret, err |-> r.err, normalized |-> r.normalized],
                again |-> c.op = "clear_interval" /\ ClearedBefore(c.id)]
    /\ alive' = IF r.outcome = "ok" THEN alive ELSE AfterPanic
    /\ pc' = [pc EXCEPT ![t] = "idle"]
    /\ call' = [call EXCEPT ![t] = NoCall]
    /\ UNCHANGED <<env, fires>>

\* A caller enters a facade function. web_global_scope() returns at once when
\* the singleton is resolved, and the call runs to its end; otherwise the
\* caller becomes the initializer or blocks on the one there is.
Call(t, c) ==
  /\ alive
  /\ pc[t] = "idle"
  /\ c.op # "clear_interval" => allocated + PendingSets < MaxTimers
  /\ LET path == get_or_init(once) IN
     IF path = "get"
     THEN /\ Complete(t, c, instance)
          /\ UNCHANGED <<once, instance, detectRuns, lastDetect>>
     ELSE /\ detectRuns < MaxDetect
          /\ pc' = [pc EXCEPT ![t] = IF path = "init" THEN "detect" ELSE "wait"]
          /\ once' = IF path = "init" THEN "running" ELSE once
          /\ call' = [call EXCEPT ![t] = c]
          /\ UNCHANGED <<env, instance, timers, allocated, fires, issued, cancelled,
                         used, last, detectRuns, lastDetect, alive>>

\* The initializer runs get_web_global_scope().unwrap(): on Ok the scope is
\* stored and the initializer's call runs to its end through it; an Err
\* panics, and the cell stays uninitialized.
Detect(t) ==
  /\ alive
  /\ pc[t] = "detect"
  /\ LET r == Unwrap(get_web_global_scope(env)) IN
     /\ detectRuns' = detectRuns + 1
     /\ lastDetect' = get_web_global_scope(env)
     /\ IF r.ok
        THEN /\ instance' = [id |-> detectRuns + 1, scope |-> SendWrapperNew(r.val)]
             /\ once' = "complete"
             /\ Complete(t, call[t], instance')
        ELSE /\ once' = IF env.panic = "unwind" THEN "incomplete" ELSE once
             /\ alive' = AfterPanic
             /\ pc' = [pc EXCEPT ![t] = "idle"]
             /\ call' = [call EXCEPT ![t] = NoCall]
             /\ last' = [call |-> call[t], phase |-> "detect",
                         outcome |-> "panicked", hasId |-> FALSE, id |-> 0,
                         ops |-> <<>>, via |-> 0, rejected |-> FALSE,
                         method |-> NoMethod, again |-> FALSE]
             /\ UNCHANGED <<env, instance, timers, allocated, fires, issued, cancelled, used>>

\* A caller blocked in get_or_init resumes when the initializer is done: its
\* call runs to its end through the stored scope, or it is the next
\* initializer when the last one panicked.
Wake(t) ==
  /\ alive
  /\ pc[t] = "wait"
  /\ get_or_init(once) # "wait"
  /\ IF get_or_init(once) = "get"
     THEN /\ Complete(t, call[t], instance)
          /\ UNCHANGED <<once, instance, detectRuns, lastDetect>>
     ELSE /\ detectRuns < MaxDetect
          /\ pc' = [pc EXCEPT ![t] = "detect"]
          /\ once' = "running"
          /\ UNCHANGED <<env, instance, call, timers, allocated, fires, issued, cancelled,
                         used, last, detectRuns, lastDetect, alive>>

\* The host's event loop invokes the callback of a scheduled timer: a timeout
\* is done with that, an interval stays scheduled.
Fire(n) ==
  /\ alive
  /\ \E x \in timers :
       /\ x.n = n
       /\ fires[n] < MaxFires
       /\ fires' = [fires EXCEPT ![n] = @ + 1]
       /\ timers' = IF x.kind = "timeout" THEN timers \ {x} ELSE timers
  /\ UNCHANGED <<env, once, instance, pc, call, allocated, issued, cancelled,
                 used, last, detectRuns, lastDetect, alive>>

CallStep == \E t \in Callers : \E c \in SetCalls \cup ClearCalls : Call(t, c)
DetectStep == \E t \in Callers : Detect(t)
WakeStep == \E t \in Callers : Wake(t)
FireStep == \E n \in 1..MaxTimers : Fire(n)

Next == CallStep \/ DetectStep \/ WakeStep \/ FireStep

\* The whole system on the hosts of SystemEnvs.
Spec == Init /\ [][Next]_vars

\* The whole system with a host event loop that does not starve a timer.
FairSpec == Spec /\ \A n \in 1..MaxTimers : WF_vars(Fire(n))

\* Detection alone, over every answer the global object can give: the first
\* caller's first use, again after each panic.
FirstUse == Call(1, ClearCall(0))
DetectNext == FirstUse \/ DetectStep
DetectSpec == InitDetect /\ [][DetectNext]_vars

\* The whole system on Node hosts returning Timeout-like objects of any shape.
TimeoutLikeSpec == InitTimeoutLike /\ [][Next]_vars

\* ----------------------------------------------------------------- claims
\* C1: when several callers enter the facade before the singleton is
\* initialized, detection runs exactly once and every call is dispatched
\* through the one resolved instance, under every interleaving.
C1_ConcurrentFirstUse ==
  /\ once = "complete" => (detectRuns = 1 /\ instance.id = 1)
  /\ used \subseteq {instance.id}
  /\ Cardinality(used) <= 1

\* A caller blocked in get_or_init while the initializer has resolved the
\* scope and dispatched through it.
C1_Witness ==
  /\ once = "complete" /\ detectRuns = 1 /\ used = {1}
  /\ \E t \in Callers : pc[t] = "wait"

\* C2: the probes are taken in the order worker, window, script-host marker,
\* and the first that matches decides the variant: no later variant is
\* selected when an earlier probe matches.
MarkerPresent(e) == e.process = "object" /\ e.versions = "object" /\ e.node = "true"

C2_DetectionOrdering ==
  detectRuns > 0 =>
    /\ env.workerEval = "true" =>
         /\ lastDetect.val.variant \notin {"Window", "NodeJs"}
         /\ env.workerCast => (lastDetect.ok /\ lastDetect.val = WorkerGlobalScope)
    /\ (env.workerEval = "false" /\ env.windowEval = "true") =>
         /\ lastDetect.val.variant \notin {"WorkerGlobalScope", "NodeJs"}
         /\ env.windowCast => (lastDetect.ok /\ lastDetect.val = Window)
    /\ (env.workerEval = "false" /\ env.windowEval = "false" /\ MarkerPresent(env)) =>
         /\ lastDetect.val.variant \notin {"WorkerGlobalScope", "Window"}
         /\ (\A f \in FnNameSet : env.fns[f] = "function") =>
              (lastDetect.ok /\ lastDetect.val.variant = "NodeJs")
    /\ lastDetect.val.variant = "NodeJs" =>
         (env.workerEval = "false" /\ env.windowEval = "false" /\ MarkerPresent(env))
    /\ lastDetect.val.variant = "Window" => env.workerEval = "false"

\* A worker whose global also carries process.versions.node and the three
\* timer functions is bound as WorkerGlobalScope.
C2_Witness ==
  /\ detectRuns > 0
  /\ env.workerEval = "true" /\ env.windowEval = "true" /\ MarkerPresent(env)
  /\ \A f \in FnNameSet : env.fns[f] = "function"
  /\ lastDetect.ok /\ lastDetect.val.variant = "WorkerGlobalScope"

\* C3: once the singleton is resolved the stored scope never changes, no call
\* runs detection again, and every call is dispatched through it.
C3_ScopeNeverChanges ==
  [][once = "complete" =>
       /\ once' = "complete"
       /\ instance' = instance
       /\ detectRuns' = detectRuns
       /\ used' \subseteq {instance.id}]_vars

\* The scope resolved, two timers scheduled and a clear_interval dispatched
\* through the instance of the first use.
C3_Witness ==
  /\ once = "complete" /\ Len(issued) >= 2
  /\ last.call.op = "clear_interval" /\ last.outcome = "returned"
  /\ last.via = instance.id /\ detectRuns = 1

\* C4: after clear_interval(id) with the id set_interval returned, the
\* interval's callback is not invoked again; until then the interval stays
\* scheduled after each invocation. On every variant.
C4_ClearStopsInterval ==
  [][\A n \in 1..Len(issued) :
       issued[n].kind = "interval" =>
         /\ n \in cancelled => fires'[n] = fires[n]
         /\ (issued[n].some /\ n \notin cancelled' /\ fires'[n] > fires[n])
              => \E x \in timers' : x.n = n]_vars

C6_TimeoutFiresExactlyOnce ==
  /\ [](\A n \in 1..Len(issued) : issued[n].kind = "timeout" => fires[n] <= 1)
  /\ \A n \in 1..MaxTimers :
       (\E x \in timers : x.n = n /\ x.kind = "timeout" /\ x.delay = JsNum(I32AsF64(0)))
         ~> (fires[n] = 1 \/ n \in cancelled \/ ~alive)

\* A timeout of delay 0 whose id the facade returned has fired once.
C6_Witness ==
  \E n \in 1..Len(issued) :
    /\ issued[n].kind = "timeout" /\ issued[n].some
    /\ fires[n] = 1 /\ n \notin cancelled

\* C7: on NodeJs, when the Timeout's primitive yields a number v in the i32
\* range, the identifier the facade returns is v truncated toward zero.
IsTruncationOf(i, v) ==
  LET d2 == 2 * (v.whole - i) + (IF v.half THEN 1 ELSE 0)
  IN  IF v.whole >= 0 THEN d2 >= 0 /\ d2 < 2 ELSE d2 > -2 /\ d2 <= 0

C7_NodeIdIsTruncatedPrimitive ==
  \A n \in 1..Len(issued) :
    (instance.scope.variant = "NodeJs" /\ HostKey(env.shape, n).cls = "fin") =>
      /\ issued[n].some
      /\ IsTruncationOf(issued[n].id, HostKey(env.shape, n))
      /\ (last.hasId /\ n = allocated) => IsTruncationOf(last.id, HostKey(env.shape, n))

\* A Timeout whose primitive yields -1.5, -2.5, ...: the identifier is -1.
C7_Witness ==
  /\ env.shape = "neghalf" /\ Len(issued) >= 1
  /\ issued[1].some /\ issued[1].id = -1

\* C8: with the script-host marker present, a required global function that
\* is missing or not invocable (the lookups before it succeeding) makes
\* detection fail with the error naming that function, for each of the three
\* names.
C8_MissingFunctionNamed ==
  (detectRuns > 0 /\ env.workerEval = "false" /\ env.windowEval = "false"
     /\ MarkerPresent(env)) =>
    \A i \in 1..Len(FnNames) :
      (env.fns[FnNames[i]] = "nonfunction"
         /\ \A j \in 1..(i - 1) : env.fns[FnNames[j]] = "function") =>
        /\ ~lastDetect.ok
        /\ lastDetect.val = NoScope
        /\ lastDetect.err = "failed to get js function " \o FnNames[i]
        /\ lastDetect.err # ErrNoKnownHost
        /\ lastDetect.err # ErrJsException
        /\ \A k \in 1..Len(FnNames) :
             k # i => lastDetect.err # "failed to get js function " \o FnNames[k]

\* Node without setTimeout: detection has failed naming setTimeout.
C8_Witness ==
  /\ detectRuns > 0 /\ env.workerEval = "false" /\ env.windowEval = "false"
  /\ MarkerPresent(env)
  /\ env.fns["clearInterval"] = "function" /\ env.fns["setInterval"] = "function"
  /\ env.fns["setTimeout"] = "nonfunction"
  /\ lastDetect.err = "failed to get js function setTimeout"

\* C9: when detection fails on first use the facade call panics: it returns
\* no identifier, makes no host timer call, and no scope is stored.
C9_DetectionFailureFatal ==
  (detectRuns > 0 /\ ~lastDetect.ok) =>
    /\ once # "complete"
    /\ instance = NoInstance
    /\ used = {} /\ allocated = 0 /\ timers = {}
    /\ last.phase = "detect"
    /\ last.outcome = "panicked" /\ ~last.hasId /\ last.ops = <<>>

\* A set_timeout on a host that is none of the three has panicked.
C9_Witness ==
  /\ detectRuns > 0 /\ ~lastDetect.ok
  /\ last.call.op = "set_timeout" /\ last.outcome = "panicked"

\* C10: a set_timeout or set_interval whose host call fails panics at the
\* facade: no identifier is returned, the host operation has been invoked
\* once, and the resolved singleton is as it was. clear_interval returns no
\* identifier.
C10_DispatchFailureFatal ==
  /\ last.rejected =>
       /\ last.call.op \in {"set_timeout", "set_interval"}
       /\ last.outcome = "panicked" /\ ~last.hasId
       /\ Len(last.ops) = 1
       /\ once = "complete" /\ instance.id = last.via /\ instance.scope # NoScope
  /\ last.phase = "dispatch" => Len(last.ops) = 1
  /\ last.call.op = "clear_interval" => ~last.hasId

\* The host has refused a set_interval.
C10_Witness ==
  /\ last.rejected /\ last.call.op = "set_interval" /\ last.outcome = "panicked"

\* No timer that returned id may still be scheduled: each was cancelled, or was
\* a timeout and has fired. An id no call returned is one of these.
Stale(id) ==
  \A n \in 1..Len(issued) :
    (issued[n].some /\ issued[n].id = id) =>
      (n \in cancelled \/ (issued[n].kind = "timeout" /\ fires[n] >= 1))

\* C11: clear_interval with an id that no call returned, or whose timer has
\* fired or was cancelled, is a no-op on every variant: it returns without a
\* panic, the host's scheduled timers are the same, the process goes on, and
\* a scope resolved before the call is the scope after it.
C11_ClearStaleIsNoOp ==
  [][(last'.call.op = "clear_interval" /\ last'.phase = "dispatch" /\ fires' = fires
        /\ Stale(last'.call.id)) =>
       /\ last'.outcome = "returned" /\ ~last'.rejected
       /\ timers' = timers
       /\ alive' = alive
       /\ once = "complete" => instance' = instance]_vars

\* clear_interval with the id of a timeout that has fired, while another timer
\* is scheduled, and clear_interval with an id no call returned.
C11_Witness ==
  /\ last.call.op = "clear_interval" /\ last.outcome = "returned"
  /\ env.shape = "counter" /\ timers # {}
  /\ \E n \in 1..Len(issued) :
       /\ issued[n].kind = "timeout" /\ issued[n].some
       /\ issued[n].id = last.call.id /\ fires[n] = 1

C13_HostFailureIsErr ==
  /\ last.rejected =>
       /\ last.call.op \in {"set_timeout", "set_interval"}
       /\ last.method.ret = "err" /\ last.method.err = ErrJsException
       /\ ~last.method.normalized
       /\ ~last.hasId /\ last.id = 0
  /\ last.method.ret = "err" => last.rejected
  /\ (last.phase = "dispatch" /\ last.call.op # "clear_interval" /\ ~last.rejected) =>
       last.method.normalized = (instance.scope.variant = "NodeJs")

\* The host has refused a set_timeout made through the NodeJs scope.
C13_Witness ==
  /\ last.rejected /\ last.call.op = "set_timeout"
  /\ instance.scope.variant = "NodeJs" /\ last.method.ret = "err"

\* C14: on NodeJs, when the Timeout the host returned has no Symbol.toPrimitive
\* member, the member is not a function, calling it throws, or its result is
\* not a number, set_timeout and set_interval panic in that call: no call
\* returns an identifier, not 0 nor any other, although the host accepted the
\* callback.
C14_BrokenPrimitiveIsFatal ==
  (env.shape \in BrokenShapes /\ instance.scope.variant = "NodeJs") =>
    /\ \A n \in 1..Len(issued) : ~issued[n].some
    /\ ~last.hasId /\ last.id = 0
    /\ (last.phase = "dispatch" /\ last.call.op # "clear_interval" /\ ~last.rejected) =>
         /\ last.outcome = "panicked"
         /\ last.method.ret = "panic" /\ last.method.normalized

\* The host accepted a set_interval and returned a Timeout whose
\* Symbol.toPrimitive member is not a function.
C14_Witness ==
  /\ env.shape = "notfn" /\ instance.scope.variant = "NodeJs"
  /\ last.call.op = "set_interval" /\ last.outcome = "panicked" /\ ~last.rejected
  /\ Len(issued) >= 1

\* C15: when neither the worker probe nor the window probe matches, detection
\* yields the NodeJs variant only if process is an object, process.versions
\* is an object and node is a property of it; in every other case, a lookup
\* that throws included, it fails with the no-known-host error and stores no
\* scope.
C15_NodeMarkerOrNoHost ==
  (detectRuns >= 1 /\ env.workerEval = "false" /\ env.windowEval = "false") =>
    /\ lastDetect.val.variant \in {"NodeJs", "none"}
    /\ lastDetect.val.variant = "NodeJs" => MarkerPresent(env)
    /\ ~MarkerPresent(env) =>
         /\ ~lastDetect.ok /\ lastDetect.err = ErrNoKnownHost
         /\ lastDetect.val = NoScope /\ instance = NoInstance

\* Detection has failed with the no-known-host error on a host whose three
\* timer functions are there and whose lookup of node in process.versions
\* throws.
C15_Witness ==
  /\ detectRuns >= 1 /\ env.workerEval = "false" /\ env.windowEval = "false"
  /\ env.process = "object" /\ env.versions = "object" /\ env.node = "throw"
  /\ env.fns = AllFns
  /\ ~lastDetect.ok /\ lastDetect.err = ErrNoKnownHost

\* C16: detection does not fall through after a probe has matched or thrown:
\* when the worker or the window probe is true and the global object is not
\* an instance of that interface, or when evaluating the probe throws,
\* get_web_global_scope returns that error, evaluates no probe after it and
\* yields no variant.
C16_NoFallThrough ==
  detectRuns >= 1 =>
    /\ env.workerEval = "throw" =>
         /\ ~lastDetect.ok /\ lastDetect.err = ErrJsException
         /\ lastDetect.probes = <<"worker">>
    /\ (env.workerEval = "true" /\ ~env.workerCast) =>
         /\ ~lastDetect.ok /\ lastDetect.err = ErrNotInstance
         /\ lastDetect.probes = <<"worker">>
    /\ (env.workerEval = "false" /\ env.windowEval = "throw") =>
         /\ ~lastDetect.ok /\ lastDetect.err = ErrJsException
         /\ lastDetect.probes = <<"worker", "window">>
    /\ (env.workerEval = "false" /\ env.windowEval = "true" /\ ~env.windowCast) =>
         /\ ~lastDetect.ok /\ lastDetect.err = ErrNotInstance
         /\ lastDetect.probes = <<"worker", "window">>
    /\ ~lastDetect.ok => (lastDetect.val = NoScope /\ instance = NoInstance)

\* The worker probe is true on a global object that is no WorkerGlobalScope,
\* on a host where the window probe and the marker would both have matched.
C16_Witness ==
  /\ detectRuns >= 1 /\ env.workerEval = "true" /\ ~env.workerCast
  /\ env.windowEval = "true" /\ env.windowCast /\ MarkerPresent(env)
  /\ env.fns = AllFns
  /\ ~lastDetect.ok /\ lastDetect.err = ErrNotInstance

\* The host function a facade function is to reach.
HostFnOf(op) ==
  CASE op = "set_timeout" -> "setTimeout"
    [] op = "set_interval" -> "setInterval"
    [] OTHER -> "clearInterval"

\* C17: on a resolved scope a facade call that returns has issued exactly one
\* host operation, of its own kind and on the resolved variant: set_timeout
\* reaches setTimeout, set_interval setInterval, clear_interval clearInterval,
\* with the caller's callback, delay or id as they were passed and no further
\* argument; the three functions a NodeJs scope stores are the ones read from
\* those names.
C17_DispatchFidelity ==
  /\ (last.phase = "dispatch" /\ last.outcome = "returned") =>
       /\ Len(last.ops) = 1
       /\ last.via = instance.id /\ instance.scope # NoScope
       /\ LET o == last.ops[1] IN
            /\ o.fn = HostFnOf(last.call.op)
            /\ o.on = instance.scope.variant
            /\ o.extra = 0
            /\ IF last.call.op = "clear_interval"
               THEN o.a1 = JsNum(Fin(last.call.id, FALSE))
               ELSE /\ o.a1 = JsCb(last.call.cb)
                    /\ o.a2 = JsNum(Fin(last.call.delay, FALSE))
  /\ instance.scope.variant = "NodeJs" =>
       /\ instance.scope.clear_interval = "clearInterval"
       /\ instance.scope.set_interval = "setInterval"
       /\ instance.scope.set_timeout = "setTimeout"

\* A set_interval through the NodeJs scope has returned an id after one call
\* of the stored setInterval with the caller's callback and delay.
C17_Witness ==
  /\ instance.scope.variant = "NodeJs"
  /\ last.call.op = "set_interval" /\ last.outcome = "returned" /\ last.hasId
  /\ Len(last.ops) = 1 /\ last.ops[1].fn = "setInterval"
  /\ last.ops[1].a1 = JsCb("cbB") /\ last.ops[1].a2 = JsNum(Fin(10, FALSE))

=============================================================================
